---- MODULE Spec2Model ----
(***************************************************************************)
(* Model of ysbot.py: the YSBot chat window.  The presentation thread runs *)
(* the Tk event loop (key/button handlers and `after` callbacks); every    *)
(* accepted send starts one daemon thread running get_bot_response, which  *)
(* talks to the Gemini chat client and hands UI work back with             *)
(* self.after(0, ...).                                                     *)
(* Text is modelled as sequences of one-character strings, so that strip() *)
(* and the f-strings are computed, not assumed.                            *)
(***************************************************************************)
EXTENDS Integers, Sequences, FiniteSets, TLC

\* ---- bounds ----
\* number of send events accepted in one run
MaxCycles == 2
\* number of chunks the client yields in one run, over all its streams
MaxChunks == 3

\* ---- text ----
Whitespace == {" ", "\t", "\n"}

\* what the user may have typed into user_input
Prompts ==
  { <<>>, <<" ", "\t">>, <<" ", "h", " ", "i", "\n">> }

\* the texts the client streams: the k-th chunk of a response, when it has a
\* text, carries ChunkText(k)
Fragments == << <<"H", "e", "l">>, <<"l", "o">> >>

ChunkText(k) == Fragments[((k - 1) % Len(Fragments)) + 1]

\* str(e) of the exceptions the client may raise
Descriptions == { <<"t", "i", "m", "e", "o", "u", "t">> }

YSBotName == <<"Y", "S", " ", "B", "o", "t">>
YouName == <<"Y", "o", "u">>
ErrorName == <<"E", "r", "r", "o", "r">>

WelcomeText ==
  <<"H", "i", "!", " ", "I", "'", "m", " ", "Y", "S", " ", "B", "o", "t", ".",
    " ", "H", "o", "w", " ", "c", "a", "n", " ", "I", " ", "a", "s", "s", "i",
    "s", "t", " ", "y", "o", "u", "?">>

ErrorPrefix ==
  <<"S", "o", "r", "r", "y", ",", " ", "a", "n", " ", "e", "r", "r", "o", "r",
    " ", "o", "c", "c", "u", "r", "r", "e", "d", ":", " ">>

RECURSIVE lstrip(_)
lstrip(s) ==
  IF s # <<>> /\ Head(s) \in Whitespace THEN lstrip(Tail(s)) ELSE s

RECURSIVE rstrip(_)
rstrip(s) ==
  IF s # <<>> /\ s[Len(s)] \in Whitespace
  THEN rstrip(SubSeq(s, 1, Len(s) - 1))
  ELSE s

\* mutant: lstrip() where strip() was meant
strip_Left(s) == lstrip(s)

\* str.strip()
strip(s) == rstrip(lstrip(s))

\* str.replace(old, new) for one-character old and new
replace(s, old, new) ==
  [i \in 1..Len(s) |-> IF s[i] = old THEN new ELSE s[i]]

\* f"tag_{sender.replace(' ', '_')}"
sender_tag(sender) == <<"t", "a", "g", "_">> \o replace(sender, " ", "_")

\* f"{sender}:\n"
sender_line(sender) == sender \o <<":", "\n">>

\* f"{message}\n\n"
message_block(message) == message \o <<"\n", "\n">>

\* mutant: the message without the {e} placeholder
error_message_NoDescription(e) == ErrorPrefix

\* f"Sorry, an error occurred: {e}"
error_message(e) == ErrorPrefix \o e

\* ---- state ----
VARIABLES
  entry,         \* text held by the user_input entry
  input_state,   \* state of user_input: "normal" or "disabled"
  button_state,  \* state of send_button: "normal" or "disabled"
  chat_display,  \* the text inserted into chat_display, one element per insert
  threads,       \* the get_bot_response threads, by the cycle that started them
  response,      \* per cycle, what the chat client has done for its call
  after_queue,   \* callbacks registered with self.after(0, ...), oldest first
  cycle,         \* number of send events accepted so far
  window,        \* "alive", "destroyed" (Quit was clicked) or "exited"
  scheduled,     \* history: per cycle, the callbacks its thread registered
  executed,      \* history: per cycle, the callbacks the event loop has run
  last           \* history: the handler or function that took the last step

vars ==
  <<entry, input_state, button_state, chat_display, threads, response,
    after_queue, cycle, window, scheduled, executed, last>>

Cycles == 1..MaxCycles

\* one chat_display.insert("end", text, tags); cycle 0 is the constructor
Insert(text, tag, c) == [text |-> text, tag |-> tag, cycle |-> c]

\* one self.after(0, fn, ...) registration
Callback(fn, sender, text, c) ==
  [fn |-> fn, sender |-> sender, text |-> text, cycle |-> c]

\* a chunk of the response stream: it has a text attribute or it has none
TextChunk(t) == [text |-> t]
NonTextChunk == [parts |-> <<>>]

\* hasattr(chunk, 'text')
hasattr_text(chunk) == "text" \in DOMAIN chunk

NoThread ==
  [pc |-> "none", prompt |-> <<>>, chunk |-> NonTextChunk,
   full_response |-> <<>>, e |-> <<>>]

\* the client's side of one chat.send_message(prompt, stream=True) call:
\* status is "none" before the call, "open" while the stream can still yield,
\* "exhausted" after it ended, "call_raised" when the call itself raised and
\* "stream_raised" when the iteration raised; chunks are the chunks yielded;
\* calls counts the invocations and prompt is the argument of the last one
NoResponse ==
  [status |-> "none", chunks |-> <<>>, error |-> <<>>, calls |-> 0,
   prompt |-> <<>>]

RECURSIVE SumLen(_, _)
SumLen(f, n) == IF n = 0 THEN 0 ELSE Len(f[n].chunks) + SumLen(f, n - 1)

\* number of chunks yielded so far by all the streams of the run
Yielded == SumLen(response, MaxCycles)

\* mutant: the textbox is cleared (delete("1.0", "end")) before the insert
add_to_chat_Clear(display, sender, message, c) ==
  (IF sender # <<>>
   THEN << Insert(sender_line(sender), sender_tag(sender), c) >>
   ELSE <<>>)
    \o << Insert(message_block(message), <<>>, c) >>

\* YSBot.add_to_chat: the inserts it makes into the textbox
add_to_chat(display, sender, message, c) ==
  display
    \o (IF sender # <<>>
        THEN << Insert(sender_line(sender), sender_tag(sender), c) >>
        ELSE <<>>)
    \o << Insert(message_block(message), <<>>, c) >>

\* mutant: the chunk text is inserted at the start of the textbox ("1.0")
update_chat_stream_AtStart(display, text, c) ==
  <<Insert(text, <<>>, c)>> \o display

\* YSBot.update_chat_stream: one untagged insert of the chunk text
update_chat_stream(display, text, c) == Append(display, Insert(text, <<>>, c))

Init ==
  /\ entry = <<>>
  /\ input_state = "normal"
  /\ button_state = "normal"
  /\ chat_display = add_to_chat(<<>>, YSBotName, WelcomeText, 0)
  /\ threads = [c \in Cycles |-> NoThread]
  /\ response = [c \in Cycles |-> NoResponse]
  /\ after_queue = <<>>
  /\ cycle = 0
  /\ window = "alive"
  /\ scheduled = [c \in Cycles |-> <<>>]
  /\ executed = [c \in Cycles |-> <<>>]
  /\ last = "__init__"

\* ---- presentation thread: user events ----

\* The user edits the entry; Tk ignores edits of a disabled entry.
TypeText(s) ==
  /\ window = "alive"
  /\ input_state = "normal"
  /\ entry' = s
  /\ last' = "user_input"
  /\ UNCHANGED <<input_state, button_state, chat_display, threads, response,
                 after_queue, cycle, window, scheduled, executed>>

\* mutant: the entry is not cleared
entry_delete_Keep(text, state) == text

\* Entry.delete(0, "end"): a disabled entry keeps its text
entry_delete(text, state) == IF state = "normal" THEN <<>> ELSE text

\* mutant: the entry is left enabled, only the button is disabled
accept_EntryEnabled(prompt) ==
  /\ cycle < MaxCycles
  /\ chat_display' = add_to_chat(chat_display, YouName, prompt, cycle + 1)
  /\ entry' = entry_delete(entry, input_state)
  /\ input_state' = input_state
  /\ button_state' = "disabled"
  /\ cycle' = cycle + 1
  /\ threads' = [threads EXCEPT ![cycle + 1] =
                   [NoThread EXCEPT !.pc = "send_message", !.prompt = prompt]]
  /\ UNCHANGED <<response, after_queue, window, scheduled, executed>>

\* send_message_event past its early return: show the prompt, clear and
\* disable the input, start the thread
accept(prompt) ==
  /\ cycle < MaxCycles
  /\ chat_display' = add_to_chat(chat_display, YouName, prompt, cycle + 1)
  /\ entry' = entry_delete(entry, input_state)
  /\ input_state' = "disabled"
  /\ button_state' = "disabled"
  /\ cycle' = cycle + 1
  /\ threads' = [threads EXCEPT ![cycle + 1] =
                   [NoThread EXCEPT !.pc = "send_message", !.prompt = prompt]]
  /\ UNCHANGED <<response, after_queue, window, scheduled, executed>>

\* mutant: the `if not prompt: return` is missing
send_message_event_NoCheck ==
  /\ last' = "send_message_event"
  /\ accept(strip(entry))

\* YSBot.send_message_event
send_message_event ==
  LET prompt == strip(entry) IN
  /\ last' = "send_message_event"
  /\ IF prompt = <<>>
     THEN UNCHANGED <<entry, input_state, button_state, chat_display, threads,
                      response, after_queue, cycle, window, scheduled,
                      executed>>
     ELSE accept(prompt)

\* <Return> bound on user_input: the binding fires in either entry state
PressReturn ==
  /\ window = "alive"
  /\ send_message_event

\* send_button command: a disabled button does not invoke its command
ClickSend ==
  /\ window = "alive"
  /\ button_state = "normal"
  /\ send_message_event

\* ---- presentation thread: the event loop runs the oldest callback ----

\* mutant: showing the Error message first removes the streamed text of the
\* cycle
RunAddToChat_Rollback ==
  /\ window = "alive"
  /\ after_queue # <<>>
  /\ Head(after_queue).fn = "add_to_chat"
  /\ LET cb == Head(after_queue)
         kept == IF cb.sender = ErrorName
                 THEN SelectSeq(chat_display,
                                LAMBDA x : \/ x.cycle # cb.cycle
                                           \/ x.tag # <<>>
                                           \/ x.text[Len(x.text)] = "\n")
                 ELSE chat_display
     IN
       /\ chat_display' = add_to_chat(kept, cb.sender, cb.text, cb.cycle)
       /\ executed' = [executed EXCEPT ![cb.cycle] = Append(@, cb)]
  /\ after_queue' = Tail(after_queue)
  /\ last' = "add_to_chat"
  /\ UNCHANGED <<entry, input_state, button_state, threads, response, cycle,
                 window, scheduled>>

RunAddToChat ==
  /\ window = "alive"
  /\ after_queue # <<>>
  /\ Head(after_queue).fn = "add_to_chat"
  /\ LET cb == Head(after_queue) IN
       /\ chat_display' = add_to_chat(chat_display, cb.sender, cb.text, cb.cycle)
       /\ executed' = [executed EXCEPT ![cb.cycle] = Append(@, cb)]
  /\ after_queue' = Tail(after_queue)
  /\ last' = "add_to_chat"
  /\ UNCHANGED <<entry, input_state, button_state, threads, response, cycle,
                 window, scheduled>>

RunUpdateChatStream ==
  /\ window = "alive"
  /\ after_queue # <<>>
  /\ Head(after_queue).fn = "update_chat_stream"
  /\ LET cb == Head(after_queue) IN
       /\ chat_display' = update_chat_stream(chat_display, cb.text, cb.cycle)
       /\ executed' = [executed EXCEPT ![cb.cycle] = Append(@, cb)]
  /\ after_queue' = Tail(after_queue)
  /\ last' = "update_chat_stream"
  /\ UNCHANGED <<entry, input_state, button_state, threads, response, cycle,
                 window, scheduled>>

\* YSBot.enable_input
RunEnableInput ==
  /\ window = "alive"
  /\ after_queue # <<>>
  /\ Head(after_queue).fn = "enable_input"
  /\ LET cb == Head(after_queue) IN
       executed' = [executed EXCEPT ![cb.cycle] = Append(@, cb)]
  /\ input_state' = "normal"
  /\ button_state' = "normal"
  /\ after_queue' = Tail(after_queue)
  /\ last' = "enable_input"
  /\ UNCHANGED <<entry, chat_display, threads, response, cycle, window,
                 scheduled>>

\* ---- background thread: get_bot_response, one action per statement ----

\* self.after(0, fn, *args) called by the thread of cycle c while the event
\* loop runs
after(c, cb) ==
  /\ window = "alive"
  /\ after_queue' = Append(after_queue, cb)
  /\ scheduled' = [scheduled EXCEPT ![c] = Append(@, cb)]

WorkerFrame ==
  UNCHANGED <<entry, input_state, button_state, chat_display, cycle, window,
              executed>>

\* response = chat.send_message(prompt, stream=True): returns a stream or raises
SendMessage(c) ==
  /\ threads[c].pc = "send_message"
  /\ \/ /\ response' = [response EXCEPT ![c].status = "open",
                                          ![c].calls = @ + 1,
                                          ![c].prompt = threads[c].prompt]
        /\ threads' = [threads EXCEPT ![c].pc = "header"]
     \/ \E d \in Descriptions :
          /\ response' = [response EXCEPT ![c].status = "call_raised",
                                          ![c].error = d,
                                          ![c].calls = @ + 1,
                                          ![c].prompt = threads[c].prompt]
          /\ threads' = [threads EXCEPT ![c].pc = "except", ![c].e = d]
  /\ last' = "get_bot_response"
  /\ UNCHANGED <<after_queue, scheduled>>
  /\ WorkerFrame

\* mutant: the input is re-enabled as soon as the response has started
ScheduleHeader_EnableEarly(c) ==
  /\ threads[c].pc = "header"
  /\ after_queue' = after_queue \o <<Callback("add_to_chat", YSBotName, <<>>, c),
                                      Callback("enable_input", <<>>, <<>>, c)>>
  /\ scheduled' = [scheduled EXCEPT ![c] =
                     @ \o <<Callback("add_to_chat", YSBotName, <<>>, c),
                            Callback("enable_input", <<>>, <<>>, c)>>]
  /\ threads' = [threads EXCEPT ![c].pc = "for", ![c].full_response = <<>>]
  /\ last' = "get_bot_response"
  /\ UNCHANGED response
  /\ WorkerFrame

\* mutant: the "YS Bot" header is not scheduled before the loop
ScheduleHeader_Skip(c) ==
  /\ threads[c].pc = "header"
  /\ threads' = [threads EXCEPT ![c].pc = "for", ![c].full_response = <<>>]
  /\ last' = "get_bot_response"
  /\ UNCHANGED <<response, after_queue, scheduled>>
  /\ WorkerFrame

\* full_response = ""; self.after(0, self.add_to_chat, "YS Bot", "")
ScheduleHeader(c) ==
  /\ threads[c].pc = "header"
  /\ after(c, Callback("add_to_chat", YSBotName, <<>>, c))
  /\ threads' = [threads EXCEPT ![c].pc = "for", ![c].full_response = <<>>]
  /\ last' = "get_bot_response"
  /\ UNCHANGED response
  /\ WorkerFrame

\* for chunk in response: the stream yields a chunk, ends, or raises
NextChunk(c) ==
  /\ threads[c].pc = "for"
  /\ \/ /\ Yielded < MaxChunks
        /\ \E ch \in {TextChunk(ChunkText(Len(response[c].chunks) + 1)),
                      NonTextChunk} :
             /\ response' = [response EXCEPT ![c].chunks = Append(@, ch)]
             /\ threads' = [threads EXCEPT ![c].pc = "chunk", ![c].chunk = ch]
     \/ /\ response' = [response EXCEPT ![c].status = "exhausted"]
        /\ threads' = [threads EXCEPT ![c].pc = "enable"]
     \/ \E d \in Descriptions :
          /\ response' = [response EXCEPT ![c].status = "stream_raised",
                                          ![c].error = d]
          /\ threads' = [threads EXCEPT ![c].pc = "except", ![c].e = d]
  /\ last' = "get_bot_response"
  /\ UNCHANGED <<after_queue, scheduled>>
  /\ WorkerFrame

\* mutant: a chunk without a text ends the loop (break)
RelayChunk_Break(c) ==
  /\ threads[c].pc = "chunk"
  /\ IF hasattr_text(threads[c].chunk)
     THEN LET chunk_text == threads[c].chunk.text IN
            /\ threads' = [threads EXCEPT ![c].pc = "for",
                                          ![c].full_response = @ \o chunk_text]
            /\ after(c, Callback("update_chat_stream", <<>>, chunk_text, c))
     ELSE /\ threads' = [threads EXCEPT ![c].pc = "enable"]
          /\ UNCHANGED <<after_queue, scheduled>>
  /\ last' = "get_bot_response"
  /\ UNCHANGED response
  /\ WorkerFrame

\* mutant: the thread calls update_chat_stream itself instead of handing it
\* to self.after
RelayChunk_Direct(c) ==
  /\ threads[c].pc = "chunk"
  /\ IF hasattr_text(threads[c].chunk)
     THEN LET chunk_text == threads[c].chunk.text IN
            /\ threads' = [threads EXCEPT ![c].pc = "for",
                                          ![c].full_response = @ \o chunk_text]
            /\ chat_display' = update_chat_stream(chat_display, chunk_text, c)
     ELSE /\ threads' = [threads EXCEPT ![c].pc = "for"]
          /\ UNCHANGED chat_display
  /\ last' = "get_bot_response"
  /\ UNCHANGED <<entry, input_state, button_state, cycle, window, executed,
                 response, after_queue, scheduled>>

\* loop body: if hasattr(chunk, 'text'): accumulate and schedule the append
RelayChunk(c) ==
  /\ threads[c].pc = "chunk"
  /\ IF hasattr_text(threads[c].chunk)
     THEN LET chunk_text == threads[c].chunk.text IN
            /\ threads' = [threads EXCEPT ![c].pc = "for",
                                          ![c].full_response = @ \o chunk_text]
            /\ after(c, Callback("update_chat_stream", <<>>, chunk_text, c))
     ELSE /\ threads' = [threads EXCEPT ![c].pc = "for"]
          /\ UNCHANGED <<after_queue, scheduled>>
  /\ last' = "get_bot_response"
  /\ UNCHANGED response
  /\ WorkerFrame

\* mutant: the except block calls the client again instead of giving up
HandleException_Retry(c) ==
  /\ threads[c].pc = "except"
  /\ threads' = [threads EXCEPT ![c].pc = "send_message"]
  /\ last' = "get_bot_response"
  /\ UNCHANGED <<response, after_queue, scheduled>>
  /\ WorkerFrame

\* mutant: the except block returns after scheduling the Error message
HandleException_Return(c) ==
  /\ threads[c].pc = "except"
  /\ after(c, Callback("add_to_chat", ErrorName, error_message(threads[c].e), c))
  /\ threads' = [threads EXCEPT ![c] = [NoThread EXCEPT !.pc = "done"]]
  /\ last' = "get_bot_response"
  /\ UNCHANGED response
  /\ WorkerFrame

\* mutant: the except block re-enables the input itself, before the common
\* re-enable at the end of the function
HandleException_EnableToo(c) ==
  /\ threads[c].pc = "except"
  /\ after_queue' = after_queue \o
       <<Callback("add_to_chat", ErrorName, error_message(threads[c].e), c),
         Callback("enable_input", <<>>, <<>>, c)>>
  /\ scheduled' = [scheduled EXCEPT ![c] = @ \o
       <<Callback("add_to_chat", ErrorName, error_message(threads[c].e), c),
         Callback("enable_input", <<>>, <<>>, c)>>]
  /\ threads' = [threads EXCEPT ![c].pc = "enable"]
  /\ last' = "get_bot_response"
  /\ UNCHANGED response
  /\ WorkerFrame

\* except Exception as e: schedule the Error message
HandleException(c) ==
  /\ threads[c].pc = "except"
  /\ after(c, Callback("add_to_chat", ErrorName, error_message(threads[c].e), c))
  /\ threads' = [threads EXCEPT ![c].pc = "enable"]
  /\ last' = "get_bot_response"
  /\ UNCHANGED response
  /\ WorkerFrame

\* self.after(0, self.enable_input), then the function returns: the thread
\* ends and its locals are gone
ScheduleEnable(c) ==
  /\ threads[c].pc = "enable"
  /\ after(c, Callback("enable_input", <<>>, <<>>, c))
  /\ threads' = [threads EXCEPT ![c] = [NoThread EXCEPT !.pc = "done"]]
  /\ last' = "get_bot_response"
  /\ UNCHANGED response
  /\ WorkerFrame

\* ---- Quit: the window is destroyed ----

\* str(e) of the RuntimeError tkinter raises when a thread other than the main
\* one calls into Tk while the main thread is not in the main loop
MainLoopError ==
  <<"m", "a", "i", "n", " ", "t", "h", "r", "e", "a", "d", " ", "i", "s", " ",
    "n", "o", "t", " ", "i", "n", " ", "m", "a", "i", "n", " ", "l", "o", "o",
    "p">>

\* quit_button command: self.destroy.  The widgets and the registered `after`
\* commands are deleted and mainloop() returns: no pending callback runs.
Quit ==
  /\ window = "alive"
  /\ window' = "destroyed"
  /\ after_queue' = <<>>
  /\ last' = "destroy"
  /\ UNCHANGED <<entry, input_state, button_state, chat_display, threads,
                 response, cycle, scheduled, executed>>

\* self.after inside the try block (lines 129 and 138) after the window was
\* destroyed: the call raises and the except block takes over
AfterRaisesInTry(c) ==
  /\ window = "destroyed"
  /\ \/ threads[c].pc = "header"
     \/ threads[c].pc = "chunk" /\ hasattr_text(threads[c].chunk)
  /\ threads' = [threads EXCEPT ![c].pc = "except", ![c].e = MainLoopError]
  /\ last' = "get_bot_response"
  /\ UNCHANGED <<response, after_queue, scheduled>>
  /\ WorkerFrame

\* self.after outside the try block (lines 144 and 147) after the window was
\* destroyed: the call raises, nothing catches it, the thread ends with it
AfterRaisesUnhandled(c) ==
  /\ window = "destroyed"
  /\ threads[c].pc \in {"except", "enable"}
  /\ threads' = [threads EXCEPT ![c] = [NoThread EXCEPT !.pc = "raised"]]
  /\ last' = "get_bot_response"
  /\ UNCHANGED <<response, after_queue, scheduled>>
  /\ WorkerFrame

\* app.mainloop() has returned and the script ends: the process exits and its
\* daemon threads end with it, wherever they are
ProcessExit ==
  /\ window = "destroyed"
  /\ window' = "exited"
  /\ threads' = [c \in Cycles |->
                   IF threads[c].pc \in {"none", "done", "raised"}
                   THEN threads[c]
                   ELSE [NoThread EXCEPT !.pc = "killed"]]
  /\ last' = "exit"
  /\ UNCHANGED <<entry, input_state, button_state, chat_display, response,
                 after_queue, cycle, scheduled, executed>>

get_bot_response(c) ==
  \/ SendMessage(c)
  \/ ScheduleHeader(c)
  \/ NextChunk(c)
  \/ RelayChunk(c)
  \/ HandleException(c)
  \/ ScheduleEnable(c)

mainloop == RunAddToChat \/ RunUpdateChatStream \/ RunEnableInput

Next ==
  \/ \E s \in Prompts : TypeText(s)
  \/ PressReturn
  \/ ClickSend
  \/ RunAddToChat
  \/ RunUpdateChatStream
  \/ RunEnableInput
  \/ \E c \in Cycles : SendMessage(c)
  \/ \E c \in Cycles : ScheduleHeader(c)
  \/ \E c \in Cycles : NextChunk(c)
  \/ \E c \in Cycles : RelayChunk(c)
  \/ \E c \in Cycles : HandleException(c)
  \/ \E c \in Cycles : ScheduleEnable(c)

Spec == Init /\ [][Next]_vars

\* the same program with the Quit button in play
NextQuit ==
  \/ \E s \in Prompts : TypeText(s)
  \/ PressReturn
  \/ ClickSend
  \/ RunAddToChat
  \/ RunUpdateChatStream
  \/ RunEnableInput
  \/ \E c \in Cycles : SendMessage(c)
  \/ \E c \in Cycles : ScheduleHeader(c)
  \/ \E c \in Cycles : NextChunk(c)
  \/ \E c \in Cycles : RelayChunk(c)
  \/ \E c \in Cycles : HandleException(c)
  \/ \E c \in Cycles : ScheduleEnable(c)
  \/ Quit
  \/ \E c \in Cycles : AfterRaisesInTry(c)
  \/ \E c \in Cycles : AfterRaisesUnhandled(c)
  \/ ProcessExit

QuitSpec == Init /\ [][NextQuit]_vars

\* The worker threads and the event loop are scheduled fairly; the user is not.
LiveSpec ==
  /\ Init
  /\ [][Next]_vars
  /\ \A c \in Cycles : WF_vars(get_bot_response(c))
  /\ WF_vars(mainloop)

\* ---- views used by the properties ----

\* enable_input has run for cycle c
EnableExecuted(c) ==
  \E i \in 1..Len(executed[c]) : executed[c][i].fn = "enable_input"

\* the thread of cycle c has ended and none of its callbacks is pending
Complete(c) ==
  /\ threads[c].pc = "done"
  /\ \A i \in 1..Len(after_queue) : after_queue[i].cycle # c

IsPrefix(s, t) == Len(s) <= Len(t) /\ s = SubSeq(t, 1, Len(s))

\* the inserts made for cycle c, in display order
CycleInserts(c) == SelectSeq(chat_display, LAMBDA x : x.cycle = c)

\* the texts of a sequence of inserts or callbacks
RECURSIVE Texts(_)
Texts(xs) == IF xs = <<>> THEN <<>> ELSE <<Head(xs).text>> \o Texts(Tail(xs))

\* the texts of the chunks that carry one, in the order they were yielded
RECURSIVE ChunkTexts(_)
ChunkTexts(chunks) ==
  IF chunks = <<>> THEN <<>>
  ELSE (IF "text" \in DOMAIN Head(chunks) THEN <<Head(chunks).text>> ELSE <<>>)
         \o ChunkTexts(Tail(chunks))

RECURSIVE Flatten(_)
Flatten(ss) == IF ss = <<>> THEN <<>> ELSE Head(ss) \o Flatten(Tail(ss))

\* t is p without its leading and trailing whitespace
IsTrimOf(t, p) ==
  /\ t # <<>> => t[1] \notin Whitespace /\ t[Len(t)] \notin Whitespace
  /\ \E i \in 1..(Len(p) + 1) :
       /\ i + Len(t) - 1 <= Len(p)
       /\ t = SubSeq(p, i, i + Len(t) - 1)
       /\ \A k \in 1..Len(p) :
            (k < i \/ k > i + Len(t) - 1) => p[k] \in Whitespace

\* The display read as Messages.  A tagged insert (a sender line) opens a
\* Message; the untagged insert that add_to_chat makes right after it is the
\* Message's text followed by its two line ends; every later untagged insert
\* (update_chat_stream) extends the text of the trailing Message.  The line
\* ends are layout and are not part of a Message's text.
RECURSIVE Messages(_)
Messages(d) ==
  IF d = <<>> THEN <<>>
  ELSE LET n == Len(d)
           prev == Messages(SubSeq(d, 1, n - 1))
           x == d[n]
       IN IF x.tag # <<>>
          THEN Append(prev, [sender |-> SubSeq(x.text, 1, Len(x.text) - 2),
                             text |-> <<>>, cycle |-> x.cycle, open |-> TRUE])
          ELSE IF prev = <<>> THEN prev
          ELSE IF prev[Len(prev)].open
          THEN [prev EXCEPT ![Len(prev)].text = SubSeq(x.text, 1, Len(x.text) - 2),
                            ![Len(prev)].open = FALSE]
          ELSE [prev EXCEPT ![Len(prev)].text = @ \o x.text]

Message(sender, text, c) ==
  [sender |-> sender, text |-> text, cycle |-> c, open |-> FALSE]

\* the Messages of cycle c, in display order
CycleMessages(c) == SelectSeq(Messages(chat_display), LAMBDA m : m.cycle = c)

\* the send event of cycle c has been accepted
Accepted(c) == threads[c].pc # "none"

TypeOK ==
  /\ entry \in Prompts
  /\ input_state \in {"normal", "disabled"}
  /\ button_state \in {"normal", "disabled"}
  /\ cycle \in 0..MaxCycles
  /\ \A c \in Cycles :
       threads[c].pc \in {"none", "send_message", "header", "for", "chunk",
                          "except", "enable", "done", "raised", "killed"}
  /\ window \in {"alive", "destroyed", "exited"}

\* ---- properties ----

\* C1: every accepted send is eventually followed by the input being enabled
\* again, whatever the client does, and a get_bot_response that has ended has
\* registered enable_input as its last callback
C1_InputReenabled ==
  /\ (input_state = "disabled") ~> (input_state = "normal")
  /\ [](\A c \in Cycles :
         threads[c].pc = "done" =>
           /\ scheduled[c] # <<>>
           /\ scheduled[c][Len(scheduled[c])].fn = "enable_input")

\* a cycle whose client call raised has ended with the input enabled again
C1_Witness ==
  \E c \in Cycles :
    /\ response[c].status = "call_raised"
    /\ EnableExecuted(c)
    /\ input_state = "normal"

\* C2: at most one get_bot_response thread is in flight, and the thread of a
\* cycle exists only once enable_input has run for the cycle before it
C2_OneWorker ==
  /\ Cardinality({c \in Cycles : threads[c].pc \notin {"none", "done"}}) <= 1
  /\ \A c \in Cycles : (c > 1 /\ Accepted(c)) => EnableExecuted(c - 1)

\* a send event was handled while a cycle was in flight
C2_Witness ==
  /\ last = "send_message_event"
  /\ \E c \in Cycles :
       /\ threads[c].pc \notin {"none", "send_message"}
       /\ ~EnableExecuted(c)

\* C3: the step that accepts a prompt disables the entry and the button; once
\* enable_input has run for a cycle no callback of the cycle runs and no
\* insert of the cycle is made; a complete cycle has run enable_input once
C3_DisableThenEnableLast ==
  [][ /\ (cycle' # cycle =>
            input_state' = "disabled" /\ button_state' = "disabled")
      /\ \A c \in Cycles :
           /\ EnableExecuted(c) =>
                /\ executed'[c] = executed[c]
                /\ CycleInserts(c)' = CycleInserts(c)
           /\ Complete(c)' =>
                Len(SelectSeq(executed'[c],
                              LAMBDA cb : cb.fn = "enable_input")) = 1
    ]_vars

\* a cycle with several callbacks has been re-enabled and the next one runs
C3_Witness ==
  \E c \in Cycles :
    /\ c < MaxCycles
    /\ EnableExecuted(c)
    /\ Len(executed[c]) >= 3
    /\ executed[c + 1] # <<>>

\* C4: when a cycle whose stream ended normally is complete, the
\* update_chat_stream callbacks ran in the order the chunk texts were yielded
\* and the text of the cycle's bot Message is their concatenation
C4_FragmentsInOrder ==
  \A c \in Cycles :
    (Complete(c) /\ response[c].status = "exhausted") =>
      LET texts == ChunkTexts(response[c].chunks) IN
        /\ Texts(SelectSeq(executed[c],
                           LAMBDA cb : cb.fn = "update_chat_stream")) = texts
        /\ Len(CycleMessages(c)) = 2
        /\ CycleMessages(c)[2] = Message(YSBotName, Flatten(texts), c)

\* the stream "Hel", "lo" ended normally and the bot Message reads "Hello"
C4_Witness ==
  \E c \in Cycles :
    /\ Complete(c)
    /\ response[c].status = "exhausted"
    /\ ChunkTexts(response[c].chunks) = << <<"H", "e", "l">>, <<"l", "o">> >>
    /\ CycleMessages(c)[2].text = <<"H", "e", "l", "l", "o">>

\* C5: a step of a get_bot_response thread leaves the display, the entry and
\* the two widget states alone and only appends to the callback queue; the
\* callbacks of a cycle run in the order they were registered
C5_WorkerFrame ==
  [][ /\ (\E c \in Cycles : threads[c].pc # "none" /\ threads'[c] # threads[c]) =>
            /\ UNCHANGED <<chat_display, input_state, button_state, entry>>
            /\ IsPrefix(after_queue, after_queue')
      /\ \A c \in Cycles : IsPrefix(executed'[c], scheduled'[c])
    ]_vars

\* a thread has just taken a step while callbacks of its cycle have run and
\* others are pending
C5_Witness ==
  /\ last = "get_bot_response"
  /\ \E c \in Cycles :
       /\ executed[c] # <<>>
       /\ Len(after_queue) >= 2
       /\ \A i \in 1..Len(after_queue) : after_queue[i].cycle = c

\* C6: the inserts of the cycles do not interleave: the display holds them
\* cycle after cycle, and an insert of a cycle is there only once
\* enable_input has run for the cycle before it
C6_NoInterleaving ==
  /\ \A i, j \in 1..Len(chat_display) :
       i < j => chat_display[i].cycle <= chat_display[j].cycle
  /\ \A c \in Cycles :
       (c > 1 /\ CycleInserts(c) # <<>>) => EnableExecuted(c - 1)

\* a second prompt is on display after a first cycle that streamed and failed
C6_Witness ==
  /\ CycleInserts(2) # <<>>
  /\ response[1].status = "stream_raised"
  /\ Len(ChunkTexts(response[1].chunks)) >= 1

\* C7: the step that accepts a prompt appends one Message to the display, from
\* "You", whose text is the entry text without its surrounding whitespace; it
\* is the first Message of its cycle and the only one from "You"
C7_UserMessageFirst ==
  [][ LET old == Messages(chat_display)
          new == Messages(chat_display')
      IN /\ cycle' # cycle =>
              /\ Len(new) = Len(old) + 1
              /\ SubSeq(new, 1, Len(old)) = old
              /\ new[Len(new)].sender = YouName
              /\ new[Len(new)].text # <<>>
              /\ IsTrimOf(new[Len(new)].text, entry)
              /\ new[Len(new)].cycle = cycle'
         /\ \A c \in 1..cycle' :
              LET own == SelectSeq(new, LAMBDA m : m.cycle = c) IN
                /\ own # <<>>
                /\ own[1].sender = YouName
                /\ Len(SelectSeq(own, LAMBDA m : m.sender = YouName)) = 1
    ]_vars

\* the prompt " h i\n" was accepted and shows as "h i", with a bot Message
\* after it
C7_Witness ==
  \E c \in Cycles :
    /\ Len(CycleMessages(c)) >= 2
    /\ CycleMessages(c)[1] = Message(YouName, <<"h", " ", "i">>, c)

\* C8: a send event on an entry that is empty or holds only whitespace changes
\* nothing: not the display, the entry, the widget states, the threads, the
\* client or the callback queue
C8_EmptySubmitIgnored ==
  [][ (last' = "send_message_event"
         /\ \A i \in 1..Len(entry) : entry[i] \in Whitespace) =>
        UNCHANGED <<entry, input_state, button_state, chat_display, threads,
                    response, after_queue, cycle, scheduled, executed>>
    ]_vars

\* a send event was handled on a whitespace-only entry while the input was
\* enabled
C8_Witness ==
  /\ last = "send_message_event"
  /\ entry = <<" ", "\t">>
  /\ input_state = "normal"

\* C9: in a cycle whose client call raised with description d no "YS Bot"
\* sender line is registered or displayed, and once the cycle is complete its
\* Messages are the user's and one from "Error" that reads
\* "Sorry, an error occurred: d"
C9_ImmediateFailure ==
  \A c \in Cycles :
    response[c].status = "call_raised" =>
      /\ \A i \in 1..Len(scheduled[c]) : scheduled[c][i].sender # YSBotName
      /\ \A i \in 1..Len(CycleMessages(c)) :
           CycleMessages(c)[i].sender # YSBotName
      /\ Complete(c) =>
           /\ Len(CycleMessages(c)) = 2
           /\ CycleMessages(c)[2] =
                Message(ErrorName, ErrorPrefix \o response[c].error, c)

\* the client call raised "timeout" and the Error message is on display
C9_Witness ==
  \E c \in Cycles :
    /\ response[c].status = "call_raised"
    /\ Complete(c)
    /\ CycleMessages(c)[2].text =
         ErrorPrefix \o <<"t", "i", "m", "e", "o", "u", "t">>

\* the inserts a complete cycle leaves after the user's two, given what its
\* client did: the bot sender line and empty block once the call returned, the
\* chunk texts in the order yielded, the Error line and block once it raised
ExpectedReplyTexts(r) ==
  (IF r.status = "call_raised"
   THEN <<>>
   ELSE <<YSBotName \o <<":", "\n">>, <<"\n", "\n">>>> \o ChunkTexts(r.chunks))
  \o (IF r.status \in {"call_raised", "stream_raised"}
      THEN <<ErrorName \o <<":", "\n">>,
             ErrorPrefix \o r.error \o <<"\n", "\n">>>>
      ELSE <<>>)

\* C10: a complete cycle whose client raised after k chunk texts shows those k
\* texts, in order and as yielded, and after them exactly one Error message; a
\* complete cycle whose stream ended normally shows no Error message
C10_ErrorAfterFragments ==
  \A c \in Cycles :
    Complete(c) =>
      LET ins == CycleInserts(c) IN
        /\ Len(ins) >= 2
        /\ Texts(SubSeq(ins, 3, Len(ins))) = ExpectedReplyTexts(response[c])
        /\ Len(SelectSeq(ins, LAMBDA x : x.tag = sender_tag(ErrorName))) =
             (IF response[c].status = "exhausted" THEN 0 ELSE 1)

\* a stream raised after two chunk texts and the cycle is complete
C10_Witness ==
  \E c \in Cycles :
    /\ Complete(c)
    /\ response[c].status = "stream_raised"
    /\ Len(ChunkTexts(response[c].chunks)) = 2

\* C11: the display is append-only: every step keeps the inserts made so far,
\* in place and unchanged, and adds new ones only at the end
C11_AppendOnly == [][IsPrefix(chat_display, chat_display')]_vars

\* the Error message of a failed stream has just been appended after text that
\* was streamed before the failure
C11_Witness ==
  /\ last = "add_to_chat"
  /\ Len(chat_display) >= 2
  /\ chat_display[Len(chat_display) - 1].tag = sender_tag(ErrorName)
  /\ \E c \in Cycles :
       /\ response[c].status = "stream_raised"
       /\ chat_display[Len(chat_display)].cycle = c
       /\ Len(SelectSeq(executed[c],
                        LAMBDA cb : cb.fn = "update_chat_stream")) >= 1

\* C12: when the window is destroyed while a thread is in flight, the pending
\* callbacks are dropped, none runs on the destroyed window, and no thread
\* ends with an exception that nothing handles
C12_QuitSafelyDiscarded ==
  /\ window # "alive" => after_queue = <<>>
  /\ \A c \in Cycles : threads[c].pc # "raised"

\* the callback that shows the "YS Bot" sender line
IsHeaderCallback(cb) == cb.fn = "add_to_chat" /\ cb.sender = YSBotName

\* C13: in a cycle whose client call returned a stream the "YS Bot" header is
\* registered once, before the loop pulls anything; it is the first callback of
\* the cycle to run, so it is shown before every chunk text and before the
\* Error message, and a complete cycle shows it exactly once
C13_HeaderOnceFirst ==
  \A c \in Cycles :
    response[c].status \in {"open", "exhausted", "stream_raised"} =>
      /\ Len(SelectSeq(scheduled[c], IsHeaderCallback)) <= 1
      /\ threads[c].pc # "header" =>
           scheduled[c] # <<>> /\ IsHeaderCallback(scheduled[c][1])
      /\ executed[c] # <<>> => IsHeaderCallback(executed[c][1])
      /\ Complete(c) =>
           /\ Len(SelectSeq(CycleInserts(c),
                            LAMBDA x : x.tag = sender_tag(YSBotName))) = 1
           /\ CycleInserts(c)[3].text = sender_line(YSBotName)

\* a stream raised before it yielded anything: the header is on display,
\* followed by the Error message
C13_Witness ==
  \E c \in Cycles :
    /\ Complete(c)
    /\ response[c].status = "stream_raised"
    /\ response[c].chunks = <<>>
    /\ Len(CycleInserts(c)) = 6
    /\ CycleInserts(c)[3].tag = sender_tag(YSBotName)
    /\ CycleInserts(c)[5].tag = sender_tag(ErrorName)

\* the chunk texts a thread has handed to update_chat_stream so far
Relayed(cbs) ==
  Texts(SelectSeq(cbs, LAMBDA cb : cb.fn = "update_chat_stream"))

\* C14: the client is called once for every accepted prompt, with the text
\* the entry held without its surrounding whitespace (the text shown as the
\* user Message); once the call or the stream has raised, the client is not
\* called again for the cycle and no further chunk text is relayed
C14_OneCallNoRetry ==
  [][ \A c \in Cycles :
        /\ response'[c].calls <= 1
        /\ threads'[c].pc \notin {"none", "send_message"} =>
             /\ response'[c].calls = 1
             /\ response'[c].prompt # <<>>
             /\ \E p \in Prompts : IsTrimOf(response'[c].prompt, p)
             /\ CycleInserts(c)'[2].text = response'[c].prompt \o <<"\n", "\n">>
        /\ response[c].status \in {"call_raised", "stream_raised"} =>
             /\ response'[c] = response[c]
             /\ Relayed(scheduled'[c]) = Relayed(scheduled[c])
    ]_vars

\* a cycle's client raised after relaying a chunk text, the cycle ended, and
\* the client has been called for the next prompt
C14_Witness ==
  \E c \in Cycles :
    /\ c < MaxCycles
    /\ response[c].status = "stream_raised"
    /\ Relayed(scheduled[c]) # <<>>
    /\ response[c].calls = 1
    /\ response[c + 1].calls = 1

\* C15: the loop body on a chunk without a text attribute registers no
\* callback, raises nothing and goes back to the loop head, leaving the
\* client, the queue and the display as they were; whenever the loop is at its
\* head the texts relayed are those of the text chunks yielded, in order, and
\* after a normal end the streamed text on display is their concatenation
C15_NonTextChunkDropped ==
  [][ \A c \in Cycles :
        /\ (/\ threads[c].pc = "chunk"
            /\ "text" \notin DOMAIN threads[c].chunk
            /\ threads'[c] # threads[c]) =>
             /\ threads'[c].pc = "for"
             /\ UNCHANGED <<after_queue, scheduled, response, chat_display>>
        /\ threads'[c].pc = "for" =>
             Relayed(scheduled'[c]) = ChunkTexts(response'[c].chunks)
        /\ (Complete(c)' /\ response'[c].status = "exhausted") =>
             Flatten(Texts(SubSeq(CycleInserts(c)', 5, Len(CycleInserts(c)'))))
               = Flatten(ChunkTexts(response'[c].chunks))
    ]_vars

\* a stream yielded a text, a chunk without text and another text, then ended:
\* the display shows the two texts
C15_Witness ==
  \E c \in Cycles :
    /\ Complete(c)
    /\ response[c].status = "exhausted"
    /\ Len(response[c].chunks) = 3
    /\ "text" \in DOMAIN response[c].chunks[1]
    /\ "text" \notin DOMAIN response[c].chunks[2]
    /\ "text" \in DOMAIN response[c].chunks[3]
    /\ Texts(SubSeq(CycleInserts(c), 5, Len(CycleInserts(c)))) =
         << <<"H", "e", "l">>, <<"H", "e", "l">> >>

\* C16: while the entry or the button is enabled no thread has a step left
\* and no callback is pending
C16_Quiescence ==
  (input_state = "normal" \/ button_state = "normal") =>
    /\ \A c \in Cycles : threads[c].pc \in {"none", "done"}
    /\ after_queue = <<>>

\* the input is enabled again after a cycle that ran the header, a chunk text
\* and enable_input
C16_Witness ==
  /\ input_state = "normal"
  /\ button_state = "normal"
  /\ cycle >= 1
  /\ threads[cycle].pc = "done"
  /\ Len(executed[cycle]) >= 3
  /\ after_queue = <<>>
  /\ last = "enable_input"

\* C17: when update_chat_stream runs, the trailing Message of the display is
\* the "YS Bot" Message of the cycle that registered the callback, and the
\* last insert is of that cycle
C17_FragmentExtendsOwnBotMessage ==
  [][ (/\ after_queue # <<>>
       /\ Head(after_queue).fn = "update_chat_stream"
       /\ after_queue' = Tail(after_queue)
       /\ chat_display' # chat_display) =>
        LET ms == Messages(chat_display)
            c == Head(after_queue).cycle
        IN /\ ms # <<>>
           /\ ms[Len(ms)].sender = YSBotName
           /\ ms[Len(ms)].cycle = c
           /\ chat_display[Len(chat_display)].cycle = c
    ]_vars

\* a chunk text of the second cycle has just been appended
C17_Witness ==
  /\ last = "update_chat_stream"
  /\ cycle = 2
  /\ chat_display[Len(chat_display)].cycle = 2
  /\ chat_display[Len(chat_display)].tag = <<>>
  /\ Len(Messages(chat_display)) >= 4
====
